---- MODULE Spec2Model ----
(***************************************************************************)
(* Model of src/validator.py: the Validator class, a stateful, chainable   *)
(* validator of one value.  A Python str is a sequence of one-character    *)
(* strings; an error message is a TLA+ string built by concatenation the   *)
(* way the f-strings of the source build it.                               *)
(***************************************************************************)
EXTENDS Integers, Sequences, FiniteSets, TLC

VARIABLES
    value,            \* self.value
    errors,           \* self.errors, the list object
    stop_validation,  \* self._stop_validation
    ret,              \* the last call: its method name, result and exception
    held,             \* the list object the caller got from get_errors
    twin,             \* a second Validator built over the same value
    chain             \* the position of the two scripted chains

vars == <<value, errors, stop_validation, ret, held, twin, chain>>

\* The longest error list a chain is followed to.
MaxErrors == 2

(***************************************************************************)
(* Characters and strings                                                  *)
(***************************************************************************)
LowerSeq ==
    <<"a","b","c","d","e","f","g","h","i","j","k","l","m",
      "n","o","p","q","r","s","t","u","v","w","x","y","z">>
UpperSeq ==
    <<"A","B","C","D","E","F","G","H","I","J","K","L","M",
      "N","O","P","Q","R","S","T","U","V","W","X","Y","Z">>
LowerAZ == {LowerSeq[i] : i \in DOMAIN LowerSeq}
UpperAZ == {UpperSeq[i] : i \in DOMAIN UpperSeq}
Digit09 == {"0","1","2","3","4","5","6","7","8","9"}
\* "U+0663" stands for the one character ARABIC-INDIC DIGIT THREE: a str pattern's
\* \d matches every Unicode decimal digit, [0-9] only the ASCII ones.
UnicodeDigit == Digit09 \cup {"U+0663"}
\* what str.strip() removes
Whitespace == {" ", "\t", "\n", "\r"}
\* [@$!%*?&#]
SpecialSymbols == {"@","$","!","%","*","?","&","#"}

\* c.lower() of one character
LowerChar(c) ==
    IF c \in UpperAZ
    THEN LowerSeq[CHOOSE i \in DOMAIN UpperSeq : UpperSeq[i] = c]
    ELSE c

\* s.lower()
lower(s) == [i \in DOMAIN s |-> LowerChar(s[i])]

\* the text of a str, as an f-string interpolates it
RECURSIVE Text(_)
Text(s) == IF s = <<>> THEN "" ELSE Head(s) \o Text(Tail(s))

\* s.strip(): s without its leading and trailing whitespace
strip(s) ==
    LET keep == {i \in DOMAIN s : s[i] \notin Whitespace}
    IN  IF keep = {} THEN <<>>
        ELSE LET lo == CHOOSE i \in keep : \A j \in keep : i <= j
                 hi == CHOOSE i \in keep : \A j \in keep : j <= i
             IN  SubSeq(s, lo, hi)

\* s.split('@', 1): the parts before and after the first '@', or s alone
split_at(s) ==
    LET ats == {i \in DOMAIN s : s[i] = "@"}
    IN  IF ats = {} THEN <<s>>
        ELSE LET k == CHOOSE i \in ats : \A j \in ats : i <= j
             IN  <<SubSeq(s, 1, k - 1), SubSeq(s, k + 1, Len(s))>>

(***************************************************************************)
(* Regular expressions: a pattern is a sequence of items, each a character *)
(* class taken once ("1") or one or more times ("+"), and an end anchor:   *)
(* "none", "$" (the end, or just before a final newline) or "Z" (the end). *)
(***************************************************************************)
One(cls) == [cls |-> cls, q |-> "1"]
Plus(cls) == [cls |-> cls, q |-> "+"]

\* the number of leading characters of s, from position i + 1 on, that are in cls
RECURSIVE Run(_, _, _)
Run(cls, s, i) ==
    IF i < Len(s) /\ s[i + 1] \in cls THEN 1 + Run(cls, s, i + 1) ELSE 0

\* the positions at which a match of items that starts after position i can end
RECURSIVE Ends(_, _, _)
Ends(items, s, i) ==
    IF items = <<>> THEN {i}
    ELSE LET it == Head(items)
             n == Run(it.cls, s, i)
             first == IF it.q = "1"
                      THEN (IF n >= 1 THEN {i + 1} ELSE {})
                      ELSE (i + 1)..(i + n)
         IN  UNION {Ends(Tail(items), s, j) : j \in first}

EndOk(end, s, j) ==
    CASE end = "none" -> TRUE
      [] end = "Z" -> j = Len(s)
      [] end = "$" -> \/ j = Len(s)
                      \/ j = Len(s) - 1 /\ s[Len(s)] = "\n"

\* re.match(pattern, s) is not None
re_match(pattern, s) ==
    \E j \in Ends(pattern.items, s, 0) : EndOk(pattern.end, s, j)

\* re.search(r'[cls]', s) is not None
re_search(cls, s) == \E i \in DOMAIN s : s[i] \in cls

\* re.escape(s): every character of s taken literally
escape(s) == [i \in DOMAIN s |-> One({s[i]})]

EMAIL_REGEX ==
    [text |-> "re.compile(EMAIL_REGEX)",
     items |-> <<Plus(LowerAZ \cup UpperAZ \cup Digit09 \cup {".","_","%","+","-"}),
                 One({"@"}),
                 Plus(LowerAZ \cup UpperAZ \cup Digit09 \cup {".","-"}),
                 One({"."}),
                 One(LowerAZ \cup UpperAZ),
                 Plus(LowerAZ \cup UpperAZ)>>,
     end |-> "$"]

(***************************************************************************)
(* Values, types and optional arguments                                    *)
(***************************************************************************)
\* An optional argument: None, or the argument given.
None == <<>>
Some(x) == <<x>>

\* bool(arg) of an optional str argument: None and "" are falsy
truthy(arg, empty) == arg # None /\ arg[1] # empty

\* `message or default`
or_default(message, default) ==
    IF truthy(message, "") THEN message[1] ELSE default

\* A value: cat is type(value).__name__, s the characters of a str, n the
\* magnitude of a number with an ordering, nan whether a float is not-a-number.
PyValue(cat, s, n, nan) == [cat |-> cat, s |-> s, n |-> n, nan |-> nan]
NoneValue == PyValue("NoneType", <<>>, 0, FALSE)
Str(s) == PyValue("str", s, 0, FALSE)
Number(cat, n) == PyValue(cat, <<>>, n, FALSE)
NaN == PyValue("float", <<>>, 0, TRUE)
Complex == PyValue("complex", <<>>, 0, FALSE)
List == PyValue("list", <<>>, 0, FALSE)

\* isinstance(v, expected_type): bool is a subclass of int; bool, int, float and
\* complex are registered with numbers.Number
isinstance(v, expected_type) ==
    CASE expected_type = "Number" -> v.cat \in {"bool", "int", "float", "complex"}
      [] expected_type = "int" -> v.cat \in {"int", "bool"}
      [] OTHER -> v.cat = expected_type

\* `min_val <= v <= max_val` raises TypeError: a complex number has no ordering
unordered(v) == v.cat = "complex"

\* `min_val <= v <= max_val` of an ordered number: every comparison with a
\* not-a-number is False
between(min_val, v, max_val) == ~v.nan /\ min_val <= v.n /\ v.n <= max_val

\* ", ".join(parts)
RECURSIVE join(_)
join(parts) ==
    IF Len(parts) = 0 THEN ""
    ELSE IF Len(parts) = 1 THEN parts[1]
    ELSE parts[1] \o ", " \o join(Tail(parts))

(***************************************************************************)
(* The Validator.  self is the record of the instance's fields; exc is the *)
(* exception the running call raises ("none": it returns).                 *)
(***************************************************************************)
\* a variant of _add_error: the list is replaced, not extended
add_error_replacing(self, message) == [self EXCEPT !.errors = <<message>>]

\* a variant of _add_error: self.errors.insert(0, message)
add_error_in_front(self, message) == [self EXCEPT !.errors = <<message>> \o @]

\* self.errors.append(message)
_add_error(self, message) == [self EXCEPT !.errors = Append(@, message)]

\* a variant of __init__: the absent value is recorded, the flag is not set
init_without_flag(v) ==
    LET self == [value |-> v, errors |-> <<>>, stop_validation |-> FALSE,
                 exc |-> "none"]
    IN  IF v.cat = "NoneType"
        THEN [self EXCEPT !.errors = <<"Value cannot be None">>]
        ELSE self

__init__(v) ==
    LET self == [value |-> v, errors |-> <<>>, stop_validation |-> FALSE,
                 exc |-> "none"]
    IN  IF v.cat = "NoneType"
        THEN [_add_error(self, "Value cannot be None")
                 EXCEPT !.stop_validation = TRUE]
        ELSE self

\* a variant of is_valid: not self._stop_validation
is_valid_by_flag(self) == [self |-> self, result |-> ~self.stop_validation]

\* the result is the pair of the instance after the call and the value returned
is_valid(self) == [self |-> self, result |-> Len(self.errors) = 0]

\* the value returned is the list object self.errors itself
get_errors(self) == [self |-> self, result |-> "self.errors"]

\* a variant of is_type: no early return when the flag is set
is_type_unlatched(self, expected_type, message) ==
    IF ~isinstance(self.value, expected_type)
    THEN [self EXCEPT
             !.errors = Append(@, or_default(message,
                            "Value must be of type " \o expected_type
                                \o ", got " \o self.value.cat)),
             !.stop_validation = TRUE]
    ELSE self

is_type(self, expected_type, message) ==
    IF self.stop_validation THEN self
    ELSE IF ~isinstance(self.value, expected_type)
    THEN [_add_error(self,
              or_default(message, "Value must be of type " \o expected_type
                                      \o ", got " \o self.value.cat))
             EXCEPT !.stop_validation = TRUE]
    ELSE self

\* a variant of is_not_empty: the semantic failure sets the flag too
is_not_empty_halting(self, message) ==
    LET s1 == is_type(self, "str", None)
    IN  IF s1.stop_validation THEN s1
        ELSE IF strip(s1.value.s) = <<>>
        THEN [_add_error(s1, or_default(message, "Value cannot be empty or whitespace"))
                 EXCEPT !.stop_validation = TRUE]
        ELSE s1

is_not_empty(self, message) ==
    LET s1 == is_type(self, "str", None)
    IN  IF s1.stop_validation THEN s1
        ELSE IF strip(s1.value.s) = <<>>
        THEN _add_error(s1, or_default(message, "Value cannot be empty or whitespace"))
        ELSE s1

\* a variant of is_in_range: min_val <= self.value < max_val
is_in_range_exclusive(self, min_val, max_val, message) ==
    LET s1 == is_type(self, "Number", None)
    IN  IF s1.stop_validation THEN s1
        ELSE IF unordered(s1.value) THEN [s1 EXCEPT !.exc = "TypeError"]
        ELSE IF ~(between(min_val, s1.value, max_val) /\ s1.value.n < max_val)
        THEN _add_error(s1,
                 or_default(message, "Value must be between " \o ToString(min_val)
                                         \o " and " \o ToString(max_val)))
        ELSE s1

is_in_range(self, min_val, max_val, message) ==
    LET s1 == is_type(self, "Number", None)
    IN  IF s1.stop_validation THEN s1
        ELSE IF unordered(s1.value) THEN [s1 EXCEPT !.exc = "TypeError"]
        ELSE IF ~between(min_val, s1.value, max_val)
        THEN _add_error(s1,
                 or_default(message, "Value must be between " \o ToString(min_val)
                                         \o " and " \o ToString(max_val)))
        ELSE s1

\* a variant of is_email: the domain mismatch ignores the custom message
is_email_default_domain_text(self, required_domain, message) ==
    LET s1 == is_type(self, "str", None)
    IN  IF s1.stop_validation THEN s1
        ELSE IF ~re_match(EMAIL_REGEX, s1.value.s)
        THEN _add_error(s1, or_default(message, "Invalid email format"))
        ELSE IF truthy(required_domain, <<>>)
                /\ lower(split_at(s1.value.s)[2]) # lower(required_domain[1])
        THEN _add_error(s1, "Email must be from domain @" \o Text(required_domain[1]))
        ELSE s1

\* a variant of is_email: the domains are compared as they are, case and all
is_email_case_sensitive(self, required_domain, message) ==
    LET s1 == is_type(self, "str", None)
    IN  IF s1.stop_validation THEN s1
        ELSE IF ~re_match(EMAIL_REGEX, s1.value.s)
        THEN _add_error(s1, or_default(message, "Invalid email format"))
        ELSE IF truthy(required_domain, <<>>)
                /\ split_at(s1.value.s)[2] # required_domain[1]
        THEN _add_error(s1,
                 or_default(message, "Email must be from domain @"
                                         \o Text(required_domain[1])))
        ELSE s1

\* a variant of is_email: no return after the format error
is_email_falling_through(self, required_domain, message) ==
    LET s1 == is_type(self, "str", None)
        s2 == IF ~re_match(EMAIL_REGEX, s1.value.s)
              THEN _add_error(s1, or_default(message, "Invalid email format"))
              ELSE s1
        parts == split_at(s1.value.s)
    IN  IF s1.stop_validation THEN s1
        ELSE IF truthy(required_domain, <<>>)
        THEN IF Len(parts) < 2
             THEN _add_error(s2,
                      or_default(message, "Invalid email format, cannot check domain"))
             ELSE IF lower(parts[2]) # lower(required_domain[1])
             THEN _add_error(s2,
                      or_default(message, "Email must be from domain @"
                                              \o Text(required_domain[1])))
             ELSE s2
        ELSE s2

is_email(self, required_domain, message) ==
    LET s1 == is_type(self, "str", None)
    IN  IF s1.stop_validation THEN s1
        ELSE IF ~re_match(EMAIL_REGEX, s1.value.s)
        THEN _add_error(s1, or_default(message, "Invalid email format"))
        ELSE IF truthy(required_domain, <<>>)
        THEN LET parts == split_at(s1.value.s)
             IN  IF Len(parts) < 2
                 THEN _add_error(s1,
                          or_default(message, "Invalid email format, cannot check domain"))
                 ELSE IF lower(parts[2]) # lower(required_domain[1])
                 THEN _add_error(s1,
                          or_default(message, "Email must be from domain @"
                                                  \o Text(required_domain[1])))
                 ELSE s1
        ELSE s1

\* a variant of is_strong_password: it stops at the first criterion that fails
is_strong_password_first_only(self, min_len, message) ==
    LET s1 == is_type(self, "str", None)
        v == s1.value.s
        first ==
            IF Len(v) < min_len
            THEN "must be at least " \o ToString(min_len) \o " characters"
            ELSE IF ~re_search(UpperAZ, v) THEN "must contain one uppercase letter"
            ELSE IF ~re_search(LowerAZ, v) THEN "must contain one lowercase letter"
            ELSE IF ~re_search(UnicodeDigit, v) THEN "must contain one digit"
            ELSE IF ~re_search(SpecialSymbols, v) THEN "must contain one special symbol"
            ELSE ""
    IN  IF s1.stop_validation THEN s1
        ELSE IF first # ""
        THEN _add_error(s1, or_default(message, "Password is not strong") \o ": " \o first)
        ELSE s1

is_strong_password(self, min_len, message) ==
    LET s1 == is_type(self, "str", None)
        v == s1.value.s
        failed ==
            (IF Len(v) < min_len
             THEN <<"must be at least " \o ToString(min_len) \o " characters">>
             ELSE <<>>)
            \o (IF ~re_search(UpperAZ, v)
                THEN <<"must contain one uppercase letter">> ELSE <<>>)
            \o (IF ~re_search(LowerAZ, v)
                THEN <<"must contain one lowercase letter">> ELSE <<>>)
            \o (IF ~re_search(UnicodeDigit, v)
                THEN <<"must contain one digit">> ELSE <<>>)
            \o (IF ~re_search(SpecialSymbols, v)
                THEN <<"must contain one special symbol">> ELSE <<>>)
    IN  IF s1.stop_validation THEN s1
        ELSE IF failed # <<>>
        THEN _add_error(s1,
                 or_default(message, "Password is not strong") \o ": " \o join(failed))
        ELSE s1

matches_regex(self, pattern, message) ==
    LET s1 == is_type(self, "str", None)
    IN  IF s1.stop_validation THEN s1
        ELSE IF ~re_match(pattern, s1.value.s)
        THEN _add_error(s1,
                 or_default(message, "Value does not match pattern '"
                                         \o pattern.text \o "'"))
        ELSE s1

\* a variant of is_phone: the patterns end in $, not in \Z
is_phone_dollar(self, country_code, message) ==
    LET pattern ==
            IF truthy(country_code, <<>>)
            THEN [text |-> "re.compile(country_code, digits)",
                  items |-> escape(country_code[1]) \o <<Plus(UnicodeDigit)>>,
                  end |-> "$"]
            ELSE [text |-> "re.compile(+, digits)",
                  items |-> <<One({"+"}), Plus(UnicodeDigit)>>,
                  end |-> "$"]
        default_message ==
            IF truthy(country_code, <<>>)
            THEN or_default(message, "Phone must start with " \o Text(country_code[1])
                                         \o " and be followed by digits")
            ELSE or_default(message, "Invalid phone format, expected +[code][number]")
    IN  matches_regex(self, pattern, Some(default_message))

is_phone(self, country_code, message) ==
    LET pattern ==
            IF truthy(country_code, <<>>)
            THEN [text |-> "re.compile(country_code, digits)",
                  items |-> escape(country_code[1]) \o <<Plus(UnicodeDigit)>>,
                  end |-> "Z"]
            ELSE [text |-> "re.compile(+, digits)",
                  items |-> <<One({"+"}), Plus(UnicodeDigit)>>,
                  end |-> "Z"]
        default_message ==
            IF truthy(country_code, <<>>)
            THEN or_default(message, "Phone must start with " \o Text(country_code[1])
                                         \o " and be followed by digits")
            ELSE or_default(message, "Invalid phone format, expected +[code][number]")
    IN  matches_regex(self, pattern, Some(default_message))

(***************************************************************************)
(* The values validated and the arguments passed                           *)
(***************************************************************************)
Values ==
    {NoneValue,
     Str(<<>>),
     Str(<<" ">>),
     Str(<<"a">>),
     Str(<<"a","@","b",".","c","o">>),
     Str(<<"a","@","b",".","c","o","\n">>),
     Str(<<"A","b","1","!">>),
     Str(<<"+","3","8","0","5">>),
     Str(<<"+","3","8","0","5","\n">>),
     Str(<<"+","3","8","0","U+0663">>),
     Str(<<"1","2">>),
     Number("bool", 1),
     Number("int", 10),
     Number("float", 25),
     NaN,
     Complex,
     List}

Messages == {None, Some(""), Some("custom")}
ExpectedTypes == {"str", "int", "float", "Number"}
Ranges == {<<0, 20>>, <<10, 25>>}
Domains == {None, Some(<<>>), Some(<<"B",".","C","O">>), Some(<<"c",".","c","o">>)}
MinLens == {4, 8}
CountryCodes == {None, Some(<<>>), Some(<<"+","3","8","0">>)}
\* the patterns passed to matches_regex: r'[a-z]+' and r'\d+$'
Patterns ==
    <<[text |-> "[a-z]+", items |-> <<Plus(LowerAZ)>>, end |-> "none"],
      [text |-> "\\d+$", items |-> <<Plus(UnicodeDigit)>>, end |-> "$"]>>

(***************************************************************************)
(* The state machine: one Validator and the calls made on it               *)
(***************************************************************************)
Self ==
    [value |-> value, errors |-> errors, stop_validation |-> stop_validation,
     exc |-> "none"]

\* a call ends: the instance's fields are those the method left, and the caller
\* gets the result, or the exception
Return(self, name, result) ==
    /\ value' = self.value
    /\ errors' = self.errors
    /\ stop_validation' = self.stop_validation
    /\ ret' = [name |-> name,
               result |-> IF self.exc = "none" THEN result ELSE "none",
               exc |-> self.exc]

Idle == [pattern |-> 0, a |-> 0, b |-> 0]

Construct(v) ==
    LET self == __init__(v)
    IN  /\ value = self.value
        /\ errors = self.errors
        /\ stop_validation = self.stop_validation
        /\ ret = [name |-> "__init__", result |-> "self", exc |-> "none"]
        /\ held = "none"
        /\ twin = __init__(v)

Init == \E v \in Values : Construct(v) /\ chain = Idle

\* chains are followed while the error list is shorter than MaxErrors
Open == Len(errors) < MaxErrors

is_type_call(expected_type, message) ==
    /\ Open
    /\ Return(is_type(Self, expected_type, message), "is_type", "self")
    /\ UNCHANGED <<held, twin, chain>>

is_not_empty_call(message) ==
    /\ Open
    /\ Return(is_not_empty(Self, message), "is_not_empty", "self")
    /\ UNCHANGED <<held, twin, chain>>

is_in_range_call(min_val, max_val, message) ==
    /\ Open
    /\ Return(is_in_range(Self, min_val, max_val, message), "is_in_range", "self")
    /\ UNCHANGED <<held, twin, chain>>

is_email_call(required_domain, message) ==
    /\ Open
    /\ Return(is_email(Self, required_domain, message), "is_email", "self")
    /\ UNCHANGED <<held, twin, chain>>

is_strong_password_call(min_len, message) ==
    /\ Open
    /\ Return(is_strong_password(Self, min_len, message), "is_strong_password", "self")
    /\ UNCHANGED <<held, twin, chain>>

matches_regex_call(pattern, message) ==
    /\ Open
    /\ Return(matches_regex(Self, pattern, message), "matches_regex", "self")
    /\ UNCHANGED <<held, twin, chain>>

is_phone_call(country_code, message) ==
    /\ Open
    /\ Return(is_phone(Self, country_code, message), "is_phone", "self")
    /\ UNCHANGED <<held, twin, chain>>

is_valid_call ==
    LET r == is_valid(Self)
    IN  /\ Return(r.self, "is_valid", IF r.result THEN "True" ELSE "False")
        /\ UNCHANGED <<held, twin, chain>>

get_errors_call ==
    LET r == get_errors(Self)
    IN  /\ Return(r.self, "get_errors", r.result)
        /\ held' = r.result
        /\ UNCHANGED <<twin, chain>>

IsType == \E t \in ExpectedTypes, m \in Messages : is_type_call(t, m)
IsNotEmpty == \E m \in Messages : is_not_empty_call(m)
IsInRange == \E r \in Ranges, m \in Messages : is_in_range_call(r[1], r[2], m)
IsEmail == \E d \in Domains, m \in Messages : is_email_call(d, m)
IsStrongPassword == \E n \in MinLens, m \in Messages : is_strong_password_call(n, m)
MatchesRegex ==
    \E i \in DOMAIN Patterns, m \in Messages : matches_regex_call(Patterns[i], m)
IsPhone == \E c \in CountryCodes, m \in Messages : is_phone_call(c, m)

Check ==
    \/ IsType
    \/ IsNotEmpty
    \/ IsInRange
    \/ IsEmail
    \/ IsStrongPassword
    \/ MatchesRegex
    \/ IsPhone

Inspect == is_valid_call \/ get_errors_call

Next == Check \/ Inspect

Spec == Init /\ [][Next]_vars

(***************************************************************************)
(* The caller changes the list get_errors gave it.  That list is the       *)
(* object held: when it is self.errors, the instance's list changes.       *)
(***************************************************************************)
caller_changes(list) ==
    /\ held # "none"
    /\ errors' = IF held = "self.errors" THEN list ELSE errors
    /\ UNCHANGED <<value, stop_validation, ret, held, twin, chain>>

caller_append == Open /\ caller_changes(Append(errors, "added by the caller"))
caller_pop == errors # <<>> /\ caller_changes(SubSeq(errors, 1, Len(errors) - 1))
caller_clear == caller_changes(<<>>)

CallerMutates == caller_append \/ caller_pop \/ caller_clear

NextAlias == Next \/ CallerMutates

SpecAlias == Init /\ [][NextAlias]_vars

(***************************************************************************)
(* Two Validators over the same value run the same two checks, one in each *)
(* order: is_not_empty() then matches_regex(p), and the reverse.           *)
(***************************************************************************)
InitOrder ==
    \E v \in Values, i \in DOMAIN Patterns :
        Construct(v) /\ chain = [pattern |-> i, a |-> 0, b |-> 0]

first_is_not_empty ==
    /\ chain.a = 0
    /\ Return(is_not_empty(Self, None), "is_not_empty", "self")
    /\ chain' = [chain EXCEPT !.a = 1]
    /\ UNCHANGED <<held, twin>>

first_matches_regex ==
    /\ chain.a = 1
    /\ Return(matches_regex(Self, Patterns[chain.pattern], None),
              "matches_regex", "self")
    /\ chain' = [chain EXCEPT !.a = 2]
    /\ UNCHANGED <<held, twin>>

second_matches_regex ==
    /\ chain.b = 0
    /\ twin' = matches_regex(twin, Patterns[chain.pattern], None)
    /\ chain' = [chain EXCEPT !.b = 1]
    /\ UNCHANGED <<value, errors, stop_validation, ret, held>>

second_is_not_empty ==
    /\ chain.b = 1
    /\ twin' = is_not_empty(twin, None)
    /\ chain' = [chain EXCEPT !.b = 2]
    /\ UNCHANGED <<value, errors, stop_validation, ret, held>>

NextOrder ==
    \/ first_is_not_empty
    \/ first_matches_regex
    \/ second_matches_regex
    \/ second_is_not_empty

SpecOrder == InitOrder /\ [][NextOrder]_vars

(***************************************************************************)
(* One chain of two calls on one Validator: a check whose gate is str and  *)
(* is_in_range, whose gate is numbers.Number.  chain.b is the order (1:    *)
(* the str check first, 2: is_in_range first), chain.a the number of calls *)
(* made.  A call that raises ends the chain: the next call is never made.  *)
(***************************************************************************)
InitMixed ==
    \E v \in Values, order \in {1, 2} :
        Construct(v) /\ chain = [pattern |-> 0, a |-> 0, b |-> order]

str_gated_check ==
    \/ \E m \in Messages :
           Return(is_not_empty(Self, m), "is_not_empty", "self")
    \/ \E d \in Domains, m \in Messages :
           Return(is_email(Self, d, m), "is_email", "self")
    \/ \E n \in MinLens, m \in Messages :
           Return(is_strong_password(Self, n, m), "is_strong_password", "self")
    \/ \E i \in DOMAIN Patterns, m \in Messages :
           Return(matches_regex(Self, Patterns[i], m), "matches_regex", "self")
    \/ \E c \in CountryCodes, m \in Messages :
           Return(is_phone(Self, c, m), "is_phone", "self")

chained_str_gated_check ==
    /\ ret.exc = "none"
    /\ chain.a = (IF chain.b = 1 THEN 0 ELSE 1)
    /\ str_gated_check
    /\ chain' = [chain EXCEPT !.a = @ + 1]
    /\ UNCHANGED <<held, twin>>

chained_is_in_range ==
    /\ ret.exc = "none"
    /\ chain.a = (IF chain.b = 2 THEN 0 ELSE 1)
    /\ \E r \in Ranges, m \in Messages :
           Return(is_in_range(Self, r[1], r[2], m), "is_in_range", "self")
    /\ chain' = [chain EXCEPT !.a = @ + 1]
    /\ UNCHANGED <<held, twin>>

NextMixed == chained_str_gated_check \/ chained_is_in_range

SpecMixed == InitMixed /\ [][NextMixed]_vars

(***************************************************************************)
(* Properties                                                              *)
(***************************************************************************)
IsPrefix(a, b) == Len(a) <= Len(b) /\ SubSeq(b, 1, Len(a)) = a

\* one entry was appended to the error list and the rest kept
AppendedOne == Len(errors') = Len(errors) + 1 /\ IsPrefix(errors, errors')

NotEmptyMessage == "Value cannot be empty or whitespace"
EmailFormatMessage == "Invalid email format"

\* C1: a Validator built over None is invalid and holds exactly the one error
\* "Value cannot be None", at construction and after every sequence of checks.
AbsentValueHasOneError ==
    value.cat = "NoneType" =>
        /\ is_valid(Self).result = FALSE
        /\ errors = <<"Value cannot be None">>

\* a check was called on a Validator built over None
AbsentValueChecked == value.cat = "NoneType" /\ ret.name = "is_strong_password"

\* C2: once a type gate has failed, every later check call leaves the error
\* list and the halted flag as they were.
HaltedChecksAreNoOps ==
    [][(value.cat # "NoneType" /\ stop_validation /\ Check)
          => (errors' = errors /\ stop_validation')]_vars

\* a str value was halted by a failed gate, and is_not_empty, whose gate the
\* value passes, was called afterwards
GateFailedThenFittingCheck ==
    /\ value.cat = "str"
    /\ stop_validation
    /\ Len(errors) = 1
    /\ ret.name = "is_not_empty"

\* the whole of s is the country code followed by one or more digits
PhoneShape(code, s) ==
    /\ Len(s) > Len(code)
    /\ SubSeq(s, 1, Len(code)) = code
    /\ \A i \in (Len(code) + 1)..Len(s) : s[i] \in UnicodeDigit

\* the criteria of is_strong_password that the str s fails, if any
WeakPassword(s, min_len) ==
    \/ Len(s) < min_len
    \/ \A i \in DOMAIN s : s[i] \notin UpperAZ
    \/ \A i \in DOMAIN s : s[i] \notin LowerAZ
    \/ \A i \in DOMAIN s : s[i] \notin UnicodeDigit
    \/ \A i \in DOMAIN s : s[i] \notin SpecialSymbols

\* a semantic check is called on a value that passes its type gate, and the
\* value fails the check's test
FailingSemanticCheck ==
    \/ /\ value.cat = "str"
       /\ \/ \E m \in Messages :
                 is_not_empty_call(m) /\ \A i \in DOMAIN value.s : value.s[i] \in Whitespace
          \/ \E d \in Domains, m \in Messages :
                 is_email_call(d, m) /\ ~re_match(EMAIL_REGEX, value.s)
          \/ \E n \in MinLens, m \in Messages :
                 is_strong_password_call(n, m) /\ WeakPassword(value.s, n)
          \/ \E i \in DOMAIN Patterns, m \in Messages :
                 matches_regex_call(Patterns[i], m) /\ ~re_match(Patterns[i], value.s)
          \/ \E c \in CountryCodes, m \in Messages :
                 /\ is_phone_call(c, m)
                 /\ ~PhoneShape(IF c = None \/ c = Some(<<>>) THEN <<"+">> ELSE c[1],
                                value.s)
    \/ /\ value.cat \in {"bool", "int", "float"}
       /\ \E r \in Ranges, m \in Messages :
              /\ is_in_range_call(r[1], r[2], m)
              /\ (value.nan \/ value.n < r[1] \/ value.n > r[2])

DocstringExample ==
    [][(/\ value = Str(<<>>)
        /\ errors = <<NotEmptyMessage>>
        /\ ~stop_validation
        /\ ret.name = "is_not_empty"
        /\ is_email_call(None, None))
          => (errors' = <<NotEmptyMessage>> /\ is_valid(Self').result = FALSE)]_vars

\* C5: a change the caller makes to the list get_errors returned leaves the
\* instance's errors, and so is_valid() and get_errors(), as they were.
CallerMutationIsHarmless ==
    [][CallerMutates
          => (errors' = errors /\ is_valid(Self').result = is_valid(Self).result)]_vars

\* C6: every step keeps the error list as a prefix of the new error list.
ErrorsAppendOnly == [][IsPrefix(errors, errors')]_vars

\* errors of two different checks are listed, the earlier first
TwoErrorsListed ==
    /\ Len(errors) >= 2
    /\ errors[1] = EmailFormatMessage
    /\ errors[2] = NotEmptyMessage

\* the messages that are custom messages: a str that is not empty
CustomMessages == {m \in Messages : m # None /\ m[1] # ""}

\* a check whose gate is str is called with message m
StrCheckCalledWith(m) ==
    \/ is_not_empty_call(m)
    \/ \E d \in Domains : is_email_call(d, m)
    \/ \E i \in DOMAIN Patterns : matches_regex_call(Patterns[i], m)
    \/ \E c \in CountryCodes : is_phone_call(c, m)

IsTypeCalledWith(m) == \E t \in ExpectedTypes : is_type_call(t, m)
IsInRangeCalledWith(m) == \E r \in Ranges : is_in_range_call(r[1], r[2], m)

TypeMismatchMessage(expected_type) ==
    "Value must be of type " \o expected_type \o ", got " \o value.cat

\* C7 as stated: whenever one of the six checks is called with a custom message
\* and appends an error, the entry appended is the custom message.
CustomMessageAlwaysRecorded ==
    [][\A m \in CustomMessages :
          ((IsTypeCalledWith(m) \/ StrCheckCalledWith(m) \/ IsInRangeCalledWith(m))
              /\ errors' # errors)
             => errors' = Append(errors, m[1])]_vars

\* C7, amended: a custom message is recorded for the call's own test (the type
\* mismatch of is_type, the semantic failure of the others); the failure of a
\* semantic check's implicit type gate records the default type-mismatch text.
CustomMessageOverridesOwnTest ==
    [][\A m \in CustomMessages :
          /\ (IsTypeCalledWith(m) /\ errors' # errors)
                => errors' = Append(errors, m[1])
          /\ (StrCheckCalledWith(m) /\ errors' # errors)
                => errors' = Append(errors, IF value.cat = "str" THEN m[1]
                                            ELSE TypeMismatchMessage("str"))
          /\ (IsInRangeCalledWith(m) /\ errors' # errors)
                => errors' = Append(errors,
                                    IF value.cat \in {"bool", "int", "float", "complex"}
                                    THEN m[1]
                                    ELSE TypeMismatchMessage("Number"))]_vars

\* is_email recorded the custom message for an address of the wrong domain
CustomDomainError ==
    /\ value = Str(<<"a","@","b",".","c","o">>)
    /\ ret.name = "is_email"
    /\ errors = <<"custom">>

\* C8: no call raises: every call returns.
NoFaultCrossesBoundary == ret.exc = "none"

\* C9: is_valid() and get_errors() leave the instance as it was, and is_valid()
\* returns True exactly when the error list is empty.
InspectionsArePure ==
    /\ [](ret.name = "is_valid"
             => ret.result = (IF errors = <<>> THEN "True" ELSE "False"))
    /\ [][Inspect
             => /\ UNCHANGED <<value, errors, stop_validation>>
                /\ is_valid(Self').result = is_valid(Self).result]_vars

\* is_valid() was called, after get_errors(), on an instance with two errors
InspectedWithErrors ==
    /\ ret.name = "is_valid"
    /\ ret.result = "False"
    /\ held = "self.errors"
    /\ Len(errors) = 2

RegexMessage == "Value does not match pattern '" \o Patterns[chain.pattern].text \o "'"

\* both scripted chains have run to their end
BothChainsDone == chain.a = 2 /\ chain.b = 2

\* C10: on a str value, is_not_empty() then matches_regex(p) and the reverse
\* chain end equally valid, with the same set of errors, each list in call order.
OrderIndependent ==
    (value.cat = "str" /\ BothChainsDone) =>
        /\ is_valid(Self).result = is_valid(twin).result
        /\ {errors[i] : i \in DOMAIN errors}
               = {twin.errors[i] : i \in DOMAIN twin.errors}
        /\ Len(errors) = 2 =>
               /\ errors = <<NotEmptyMessage, RegexMessage>>
               /\ twin.errors = <<RegexMessage, NotEmptyMessage>>

\* both checks failed in both chains
BothChecksFailed ==
    /\ value.cat = "str"
    /\ BothChainsDone
    /\ Len(errors) = 2
    /\ Len(twin.errors) = 2

\* `v < x` and `v > x` of a number with an ordering: False for a not-a-number
less(v, x) == ~v.nan /\ v.n < x
greater(v, x) == ~v.nan /\ v.n > x

RangeMessage(r, m) ==
    or_default(m, "Value must be between " \o ToString(r[1]) \o " and "
                      \o ToString(r[2]))

\* is_in_range(r[1], r[2], m) is called on a non-halted instance
RangeCalled(r, m) == ~stop_validation /\ is_in_range_call(r[1], r[2], m)

\* a non-halted instance whose value is not a number: the gate fails, the
\* type-mismatch error is the one entry appended, the instance is halted
RangeGateFails(r, m) ==
    (RangeCalled(r, m) /\ value.cat \notin {"bool", "int", "float", "complex"})
        => /\ errors' = Append(errors, TypeMismatchMessage("Number"))
           /\ stop_validation'

\* C11 as stated: on a bool, int or float value is_in_range appends its one
\* error exactly when value < min or value > max; a value that is no number
\* gets the type-mismatch error and is halted.
RangeErrorIffOutside ==
    [][\A r \in Ranges, m \in Messages :
          /\ (RangeCalled(r, m) /\ value.cat \in {"bool", "int", "float"})
                => errors' = IF less(value, r[1]) \/ greater(value, r[2])
                             THEN Append(errors, RangeMessage(r, m))
                             ELSE errors
          /\ RangeGateFails(r, m)]_vars

\* C11, amended: the error is appended exactly when `min <= value <= max` is
\* false: value < min, value > max, or value is a not-a-number.
RangeErrorIffNotBetween ==
    [][\A r \in Ranges, m \in Messages :
          /\ (RangeCalled(r, m) /\ value.cat \in {"bool", "int", "float"})
                => /\ errors' = IF value.nan \/ value.n < r[1] \/ value.n > r[2]
                                THEN Append(errors, RangeMessage(r, m))
                                ELSE errors
                   /\ ~stop_validation'
          /\ RangeGateFails(r, m)]_vars

\* is_in_range(10, 25), the one range that holds 25, was called on 25
RangeCalledAtBound ==
    /\ value = Number("float", 25)
    /\ ret.name = "is_in_range"
    /\ errors = <<>>

\* the five criteria of a strong password, in their fixed order: whether the
\* str s fails each, and the fragment that says so
Criteria(s, min_len) ==
    <<[failed |-> Len(s) < min_len,
       text |-> "must be at least " \o ToString(min_len) \o " characters"],
      [failed |-> \A i \in DOMAIN s : s[i] \notin UpperAZ,
       text |-> "must contain one uppercase letter"],
      [failed |-> \A i \in DOMAIN s : s[i] \notin LowerAZ,
       text |-> "must contain one lowercase letter"],
      [failed |-> \A i \in DOMAIN s : s[i] \notin UnicodeDigit,
       text |-> "must contain one digit"],
      [failed |-> \A i \in DOMAIN s : s[i] \notin SpecialSymbols,
       text |-> "must contain one special symbol"]>>

\* the fragments of the failed criteria among c[k], c[k + 1], ..., comma-joined
RECURSIVE Listed(_, _)
Listed(c, k) ==
    IF k > Len(c) THEN ""
    ELSE LET rest == Listed(c, k + 1)
         IN  IF ~c[k].failed THEN rest
             ELSE IF rest = "" THEN c[k].text
             ELSE c[k].text \o ", " \o rest

\* C12: is_strong_password appends nothing when no criterion fails, and
\* otherwise the one entry (message or "Password is not strong") + ": " + the
\* fragments of exactly the failed criteria, comma-joined in the fixed order.
PasswordOneCombinedEntry ==
    [][\A n \in MinLens, m \in Messages :
          (~stop_validation /\ value.cat = "str" /\ is_strong_password_call(n, m))
             => LET c == Criteria(value.s, n)
                    prefix == IF m = None \/ m = Some("")
                              THEN "Password is not strong" ELSE m[1]
                IN  errors' = IF \A k \in DOMAIN c : ~c[k].failed
                              THEN errors
                              ELSE Append(errors, prefix \o ": " \o Listed(c, 1))]_vars

\* is_strong_password(4) listed the four criteria that "a" fails
FourCriteriaListed ==
    /\ value = Str(<<"a">>)
    /\ ret.name = "is_strong_password"
    /\ errors = <<"Password is not strong: must be at least 4 characters, "
                    \o "must contain one uppercase letter, must contain one digit, "
                    \o "must contain one special symbol">>

EmailLocalChars == LowerAZ \cup UpperAZ \cup Digit09 \cup {".", "_", "%", "+", "-"}
EmailDomainChars == LowerAZ \cup UpperAZ \cup Digit09 \cup {".", "-"}

\* the whole of s, from its first to its last character, is one or more local
\* characters, "@", one or more domain characters, ".", two or more letters
EmailShape(s) ==
    \E k \in DOMAIN s, j \in DOMAIN s :
        /\ 1 < k /\ k + 1 < j /\ j + 2 <= Len(s)
        /\ s[k] = "@"
        /\ s[j] = "."
        /\ \A i \in 1..(k - 1) : s[i] \in EmailLocalChars
        /\ \A i \in (k + 1)..(j - 1) : s[i] \in EmailDomainChars
        /\ \A i \in (j + 1)..Len(s) : s[i] \in LowerAZ \cup UpperAZ

\* C13: is_email() appends no format error exactly when the whole str has the
\* shape of an address, with no character before or after it.
EmailFormatFullyAnchored ==
    [][\A m \in Messages :
          (~stop_validation /\ value.cat = "str" /\ is_email_call(None, m))
             => ((errors' = errors) <=> EmailShape(value.s))]_vars

\* what follows the first "@" of s
AfterFirstAt(s) ==
    LET k == CHOOSE i \in DOMAIN s : s[i] = "@" /\ \A j \in 1..(i - 1) : s[j] # "@"
    IN  [i \in 1..(Len(s) - k) |-> s[k + i]]

\* a and b are the same but for the case of their letters
SameIgnoringCase(a, b) ==
    /\ Len(a) = Len(b)
    /\ \A i \in DOMAIN a :
           \/ a[i] = b[i]
           \/ \E k \in DOMAIN LowerSeq : {a[i], b[i]} = {LowerSeq[k], UpperSeq[k]}

\* C14: on a str that passes the format check, is_email(required_domain) appends
\* the domain error exactly when what follows the first "@" differs from
\* required_domain, case ignored; on a str that fails the format check it appends
\* the format error alone.  A required_domain of None or "" is no domain given.
DomainErrorIffDiffers ==
    [][\A d \in Domains, m \in Messages :
          (~stop_validation /\ value.cat = "str" /\ is_email_call(d, m))
             => errors' =
                   IF ~re_match(EMAIL_REGEX, value.s)
                   THEN Append(errors, or_default(m, EmailFormatMessage))
                   ELSE IF d # None /\ d # Some(<<>>)
                           /\ ~SameIgnoringCase(AfterFirstAt(value.s), d[1])
                   THEN Append(errors,
                               or_default(m, "Email must be from domain @" \o Text(d[1])))
                   ELSE errors]_vars

\* is_email("c.co") recorded the domain error for "a@b.co"
DomainErrorRecorded ==
    /\ value = Str(<<"a","@","b",".","c","o">>)
    /\ ret.name = "is_email"
    /\ errors = <<"Email must be from domain @c.co">>

\* C15: is_phone appends no error exactly when the whole str is the country
\* code, its characters taken literally, followed by one or more digits (any
\* decimal digit that \d takes), or "+" followed by one or more digits when no
\* country code is given (None or ""); a value that is no str gets the
\* type-mismatch error and is halted; a halted instance is left as it is.
PhoneAcceptsAnchoredShapes ==
    [][\A c \in CountryCodes, m \in Messages :
          is_phone_call(c, m)
             => LET code == IF c = None \/ c = Some(<<>>) THEN <<"+">> ELSE c[1]
                IN  IF stop_validation
                    THEN errors' = errors /\ stop_validation'
                    ELSE IF value.cat # "str"
                    THEN /\ errors' = Append(errors, TypeMismatchMessage("str"))
                         /\ stop_validation'
                    ELSE /\ (errors' = errors) <=> PhoneShape(code, value.s)
                         /\ Len(errors') <= Len(errors) + 1
                         /\ ~stop_validation']_vars

\* is_phone() turned down a phone number followed by a newline
PhoneWithNewlineRejected ==
    /\ value = Str(<<"+","3","8","0","5","\n">>)
    /\ ret.name = "is_phone"
    /\ errors = <<"Invalid phone format, expected +[code][number]">>

ChainMethods ==
    {"is_type", "is_not_empty", "is_in_range", "is_email", "is_strong_password",
     "matches_regex", "is_phone"}

\* C16: every call of a chain method returns the instance it was called on, and
\* the instance's value stays the one it was built over (the twin's, which no
\* call touches).
ChainMethodsReturnSelf ==
    ret.name \in ChainMethods => (ret.result = "self" /\ value = twin.value)

\* C17: a call of a check appends at most one entry to the error list.
AtMostOneErrorPerCall ==
    [][Check => (errors' = errors \/ AppendedOne)]_vars

\* is_email("c.co") recorded the format error, and that alone, for "a"
FormatErrorAlone ==
    /\ value = Str(<<"a">>)
    /\ ret.name = "is_email"
    /\ errors = <<EmailFormatMessage>>

\* the entries an event that sets the flag records: the absent-value message,
\* or the type-mismatch message of a failing gate (is_type's may be a custom one)
HaltMessages ==
    {"Value cannot be None"}
        \cup {TypeMismatchMessage(t) : t \in ExpectedTypes}
        \cup {m[1] : m \in CustomMessages}

\* C18: in every state, the halted flag implies that the error list is not
\* empty, so that is_valid() is False, and that its last entry is the
\* absent-value or type-mismatch message of the event that set the flag.
HaltedImpliesItsError ==
    stop_validation =>
        /\ errors # <<>>
        /\ is_valid(Self).result = FALSE
        /\ errors[Len(errors)] \in HaltMessages

\* the chain has ended: both calls were made, or a call raised
ChainEnded == chain.a = 2 \/ (chain.a >= 1 /\ ret.exc # "none")

\* C19: a chain of a str-gated check and is_in_range, in either order and for
\* any value, ends with is_valid() False and the halted flag set.
MixedChainEndsHalted ==
    ChainEnded => (is_valid(Self).result = FALSE /\ stop_validation)
====
